---- MODULE Spec2Model ----
(***************************************************************************)
(* Model of the monograph discovery-and-revalidation engine of             *)
(* pillscan-updater: monograph.py (candidate extraction, batch discovery   *)
(* under a semaphore, conditional HEAD) and step 7-9 of run_pipeline.main  *)
(* (discovery write-back, merge with the stored rows, HEAD loop, upsert).  *)
(*                                                                         *)
(* Text is modelled as sequences: a captured date text is a sequence of    *)
(* one-character strings, a link target is a sequence of atoms (the        *)
(* substrings the code tests for), a page is a sequence of tokens (links   *)
(* and labelled values, in markup order).                                  *)
(***************************************************************************)
EXTENDS Integers, Sequences, FiniteSets, TLC

\* Python's None (pandas NA included), for a string, a link target and a date.
None == "<None>"
NoUrl == <<None>>
NoDate == [y |-> 0, m |-> 0, d |-> 0]

(***************************************************************************)
(* Bounds of the model.                                                    *)
(***************************************************************************)
MaxBatch == 3    \* longest identifier list handed to batch_discover
MaxConc == 2     \* largest concurrency limit tried
MaxTokens == 2   \* longest page, in tokens

(***************************************************************************)
(* _parse_date                                                             *)
(***************************************************************************)
Digits == {"0", "1", "2", "3", "4", "5", "6", "7", "8", "9"}

DigitVal(c) ==
    CASE c = "0" -> 0 [] c = "1" -> 1 [] c = "2" -> 2 [] c = "3" -> 3
      [] c = "4" -> 4 [] c = "5" -> 5 [] c = "6" -> 6 [] c = "7" -> 7
      [] c = "8" -> 8 [] c = "9" -> 9

\* str.lower() on one character (the letters the model's texts use).
LowerChar(c) ==
    CASE c = "M" -> "m" [] c = "A" -> "a" [] c = "Y" -> "y" [] c = "J" -> "j"
      [] c = "D" -> "d" [] c = "E" -> "e" [] c = "C" -> "c" [] c = "U" -> "u"
      [] c = "N" -> "n" [] OTHER -> c

LowerText(s) == [i \in 1..Len(s) |-> LowerChar(s[i])]

\* s.strip(): the text between its first and its last character that is no blank.
Strip(s) ==
    LET inked == {i \in 1..Len(s) : s[i] # " "} IN
    IF inked = {} THEN <<>>
    ELSE SubSeq(s, CHOOSE i \in inked : \A j \in inked : i <= j,
                   CHOOSE i \in inked : \A j \in inked : i >= j)

\* s.split(sep) for a one-character separator: the pieces between the
\* separators, in order.
Split(s, sep) ==
    LET seps == {i \in 1..Len(s) : s[i] = sep}
        n == Cardinality(seps)
        pos(j) == IF j = 0 THEN 0
                  ELSE IF j = n + 1 THEN Len(s) + 1
                  ELSE CHOOSE i \in seps : Cardinality({x \in seps : x < i}) = j - 1
    IN  [j \in 1..(n + 1) |-> SubSeq(s, pos(j - 1) + 1, pos(j) - 1)]

AllDigits(p) == \A i \in 1..Len(p) : p[i] \in Digits

\* int(p) for a string of at most four digits.
NumVal(p) ==
    LET n == Len(p)
        dig(i) == IF i <= n THEN DigitVal(p[n + 1 - i]) ELSE 0
    IN  dig(1) + 10 * dig(2) + 100 * dig(3) + 1000 * dig(4)

\* strptime directive %Y: exactly four digits.
FieldY(p) == IF Len(p) = 4 /\ AllDigits(p) THEN NumVal(p) ELSE -1

\* strptime directive %m: 1[0-2]|0[1-9]|[1-9]
FieldM(p) ==
    IF Len(p) \in {1, 2} /\ AllDigits(p) /\ NumVal(p) \in 1..12 THEN NumVal(p) ELSE -1

\* strptime directive %d: 3[01]|[12]\d|0[1-9]|[1-9]| [1-9]
FieldD(p) ==
    IF Len(p) \in {1, 2} /\ AllDigits(p) /\ NumVal(p) \in 1..31 THEN NumVal(p)
    ELSE IF Len(p) = 2 /\ p[1] = " " /\ p[2] \in Digits \ {"0"} THEN DigitVal(p[2])
    ELSE -1

\* strptime directive %b (matched ignoring case).
FieldMonAbbr(p) ==
    LET l == LowerText(p) IN
    CASE l = <<"j", "a", "n">> -> 1
      [] l = <<"m", "a", "y">> -> 5
      [] l = <<"j", "u", "n">> -> 6
      [] l = <<"d", "e", "c">> -> 12
      [] OTHER -> -1

\* strptime directive %B (matched ignoring case).
FieldMonFull(p) ==
    LET l == LowerText(p) IN
    CASE l = <<"m", "a", "y">> -> 5
      [] l = <<"j", "u", "n", "e">> -> 6
      [] OTHER -> -1

IsLeap(y) == (y % 4 = 0 /\ y % 100 # 0) \/ y % 400 = 0

DaysIn(y, m) ==
    IF m = 2 THEN (IF IsLeap(y) THEN 29 ELSE 28)
    ELSE IF m \in {4, 6, 9, 11} THEN 30 ELSE 31

\* datetime(y, m, d).date().isoformat(), or NoDate where the constructor raises.
IsoDate(y, m, d) ==
    IF y >= 1 /\ m \in 1..12 /\ d >= 1 /\ d <= DaysIn(y, m)
    THEN [y |-> y, m |-> m, d |-> d] ELSE NoDate

\* datetime.strptime(s, fmt) for the five formats of _parse_date, in order:
\* 1 %Y-%m-%d, 2 %d-%b-%Y, 3 %d-%B-%Y, 4 %Y/%m/%d, 5 %d/%m/%Y.
Strptime(s, fmt) ==
    LET sep == IF fmt \in {1, 2, 3} THEN "-" ELSE "/"
        p == Split(s, sep)
    IN  IF Len(p) # 3 THEN NoDate
        ELSE CASE fmt = 1 -> IsoDate(FieldY(p[1]), FieldM(p[2]), FieldD(p[3]))
               [] fmt = 2 -> IsoDate(FieldY(p[3]), FieldMonAbbr(p[2]), FieldD(p[1]))
               [] fmt = 3 -> IsoDate(FieldY(p[3]), FieldMonFull(p[2]), FieldD(p[1]))
               [] fmt = 4 -> IsoDate(FieldY(p[1]), FieldM(p[2]), FieldD(p[3]))
               [] fmt = 5 -> IsoDate(FieldY(p[3]), FieldM(p[2]), FieldD(p[1]))

\* re.search(r"(20\d{2}|19\d{2})", s): the leftmost position where it matches.
YearAt(s, i) ==
    /\ i + 3 <= Len(s)
    /\ \/ s[i] = "2" /\ s[i + 1] = "0"
       \/ s[i] = "1" /\ s[i + 1] = "9"
    /\ s[i + 2] \in Digits
    /\ s[i + 3] \in Digits

YearSearch(s) ==
    LET hits == {i \in 1..Len(s) : YearAt(s, i)} IN
    IF hits = {} THEN -1
    ELSE LET i == CHOOSE j \in hits : \A k \in hits : j <= k
         IN  NumVal(SubSeq(s, i, i + 3))

_parse_date(raw) ==
    LET s == Strip(raw)
        ok == {f \in 1..5 : Strptime(s, f) # NoDate}
    IN  IF ok # {}
        THEN Strptime(s, CHOOSE f \in ok : \A g \in ok : f <= g)
        ELSE IF YearSearch(s) # -1
        THEN [y |-> YearSearch(s), m |-> 1, d |-> 1]
        ELSE NoDate

(***************************************************************************)
(* Pages.  A link target is a sequence of atoms; a page is a sequence of   *)
(* tokens in markup order: a link (href="...") or a labelled value (a      *)
(* label phrase, a ':' or '>' and the run of [A-Za-z0-9/\- ] characters    *)
(* after it).                                                              *)
(***************************************************************************)
CanonHost == "https://health-products.canada.ca"
OtherHost == "https://pdf.hres.ca"

Hrefs ==
    { <<CanonHost, "/dpd_pm/", "eng", ".pdf">>,
      <<CanonHost, "/dpd_pm/", "fra", ".pdf">>,
      <<OtherHost, "/dpd_pm/", ".PDF", "?v=2">>,
      <<OtherHost, "/dpd_pm/", "ENG", ".pdf">>,
      <<OtherHost, "/dpd_pm/", "FRA", "eng", ".pdf">>,
      <<CanonHost, "/dpd-bdpp/", "eng", ".html">> }

\* str.lower() on an atom.
LowerAtom(a) ==
    CASE a = ".PDF" -> ".pdf" [] a = "ENG" -> "eng" [] a = "FRA" -> "fra" [] OTHER -> a

\* w in u.lower(), for a word w that is an atom.
InLower(w, u) == \E i \in 1..Len(u) : LowerAtom(u[i]) = w

\* The captured texts the model's pages use.
DateTexts ==
    { <<"2", "0", "2", "3", "-", "0", "5", "-", "1", "4">>,
      <<" ", "1", "4", "-", "M", "a", "y", "-", "2", "0", "2", "3", " ">>,
      <<"1", "4", "/", "0", "5", "/", "2", "0", "2", "3">>,
      <<"i", "n", " ", "2", "0", "2", "1">>,
      <<"u", "n", "k", "n", "o", "w", "n">>,
      <<"1", "2", "0", "2", "1", "3">>,
      <<"2", "0", "2", "1">> }

\* The label phrases _find_revision_date looks for, in its order.
Labels == <<"Revision Date", "Date", "Last updated", "Derniere mise">>

LabelSet == {Labels[i] : i \in 1..Len(Labels)}

LinkTokens == {[kind |-> "a", href |-> h, lab |-> "", text |-> <<>>] : h \in Hrefs}

LabelTokens ==
    {[kind |-> "label", href |-> <<>>, lab |-> l, text |-> t] : l \in LabelSet, t \in DateTexts}

Tokens == LinkTokens \cup LabelTokens

RECURSIVE SeqsUpTo(_, _)
SeqsUpTo(S, n) ==
    IF n = 0 THEN {<<>>}
    ELSE LET shorter == SeqsUpTo(S, n - 1)
         IN  shorter \cup {Append(q, x) : q \in {r \in shorter : Len(r) = n - 1}, x \in S}

Htmls == SeqsUpTo(Tokens, MaxTokens)

(***************************************************************************)
(* _best_pdf_from_html                                                     *)
(***************************************************************************)
\* re.findall(r'href="([^"]+\.pdf[^"]*)"', html, re.IGNORECASE): the targets
\* holding ".pdf" after at least one character, in markup order.
IsPdfHref(u) == \E i \in 2..Len(u) : LowerAtom(u[i]) = ".pdf"

IsPdfLink(tok) == tok.kind = "a" /\ IsPdfHref(tok.href)

FindPdfs(html) ==
    LET links == SelectSeq(html, IsPdfLink)
    IN  [i \in 1..Len(links) |-> links[i].href]

Score(u) ==
    (IF InLower("eng", u) THEN 2 ELSE 0)
    - (IF InLower("fra", u) THEN 2 ELSE 0)
    + (IF u # <<>> /\ LowerAtom(u[1]) = CanonHost THEN 1 ELSE 0)

\* A descending sort that puts the later of two equal scores first.
SortedDescLastFirst(pdfs) ==
    LET n == Len(pdfs)
        place(i) == 1 + Cardinality({j \in 1..n : Score(pdfs[j]) > Score(pdfs[i])})
                      + Cardinality({j \in (i + 1)..n : Score(pdfs[j]) = Score(pdfs[i])})
    IN  [r \in 1..n |-> pdfs[CHOOSE i \in 1..n : place(i) = r]]

\* sorted(pdfs, key=score, reverse=True): descending by score and stable, so
\* element i lands after every higher score and every earlier equal score.
SortedDesc(pdfs) ==
    LET n == Len(pdfs)
        place(i) == 1 + Cardinality({j \in 1..n : Score(pdfs[j]) > Score(pdfs[i])})
                      + Cardinality({j \in 1..(i - 1) : Score(pdfs[j]) = Score(pdfs[i])})
    IN  [r \in 1..n |-> pdfs[CHOOSE i \in 1..n : place(i) = r]]

_best_pdf_from_html(html) ==
    LET pdfs == FindPdfs(html) IN
    IF pdfs = <<>> THEN NoUrl ELSE SortedDesc(pdfs)[1]

(***************************************************************************)
(* _find_revision_date                                                     *)
(***************************************************************************)
\* lab occurs in the token's label phrase, ignoring case: "Date" occurs in
\* "Revision Date" and in "Last upDATEd" too.
LabelOccurs(lab, tokenLab) ==
    \/ lab = tokenLab
    \/ lab = "Date" /\ tokenLab \in {"Revision Date", "Last updated"}

\* re.search(rf"{lab}[^<:]*[:>]\s*([A-Za-z0-9/\- ]{{6,30}})", html): the first
\* place where the label is followed by a value of at least 6 characters; 0 if none.
LabelMatch(html, lab) ==
    LET hits == {i \in 1..Len(html) :
                    /\ html[i].kind = "label"
                    /\ LabelOccurs(lab, html[i].lab)
                    /\ Len(html[i].text) >= 6}
    IN  IF hits = {} THEN 0 ELSE CHOOSE i \in hits : \A j \in hits : i <= j

\* What the loop gets for label number n: the parsed value of its match,
\* NoDate when the label does not match or the value does not parse.
LabelDate(html, n) ==
    IF LabelMatch(html, Labels[n]) = 0 THEN NoDate
    ELSE _parse_date(html[LabelMatch(html, Labels[n])].text)

\* The loop returns at the first label, in order, that gives a date.
_find_revision_date(html) ==
    LET good == {n \in 1..Len(Labels) : LabelDate(html, n) # NoDate} IN
    IF good = {} THEN NoDate
    ELSE LabelDate(html, CHOOSE n \in good : \A m \in good : n <= m)

(***************************************************************************)
(* fetch_pm_for_drug_code, given the response of the GET                   *)
(***************************************************************************)
Empty == <<NoUrl, NoDate>>

fetch_pm_for_drug_code(status, html) ==
    IF status # 200 THEN Empty
    ELSE <<_best_pdf_from_html(html), _find_revision_date(html)>>

(***************************************************************************)
(* batch_discover: the identifiers, the mapping and the remote site are    *)
(* its inputs; sem, tpc, results and bpc are the state of one call.        *)
(***************************************************************************)
VARIABLES
    dins,              \* the identifier list (the same identifier may recur)
    din_to_drugcode,   \* identifier -> drug code, None where unmapped
    concurrency,       \* the semaphore's initial value
    remote,            \* drug code -> what the GET of its page does
    fetched,           \* drug code -> what fetch_pm_for_drug_code makes of the answer
    sem,               \* the semaphore's value
    tpc,               \* task number -> "pending", "fetching", "done", "failed"
    results,           \* the shared results dict
    bpc                \* "gather", "returned" or "raised"

batchVars == <<dins, din_to_drugcode, concurrency, remote, fetched, sem, tpc, results, bpc>>

\* The state of one run of main (steps 7 to 9).
VARIABLES
    existing,     \* identifier -> stored row (present = FALSE: no such row)
    catalog,      \* the identifiers of out
    out,          \* identifier -> the monograph columns of its row
    discovered,   \* what batch_discover returned
    subset,       \* the records the HEAD loop walks
    cursor,            \* the number of the loop's next record
    changed,      \* the loop's counter
    heads,        \* the HEAD calls made: identifier, URL, request headers, response
    upserted,     \* the rows handed to _upsert
    mpc           \* "discover", "merge", "head", "upsert", "done", "crashed"

mainVars == <<existing, catalog, out, discovered, subset, cursor, changed, heads, upserted, mpc>>

\* The state of one fetch-and-extract.
VARIABLES
    status,      \* the status of the GET
    html,        \* the body of the GET
    extracted,   \* the pair fetch_pm_for_drug_code returns
    epc          \* "got" (the response is in), "returned"

extractVars == <<status, html, extracted, epc>>

vars == <<batchVars, mainVars, extractVars>>

otherThanBatch == <<mainVars, extractVars>>
otherThanMain == <<batchVars, extractVars>>
otherThanExtract == <<batchVars, mainVars>>

DINS == {"00000001", "00000002"}

\* The drug code the DPD extract gives each identifier, where it gives one.
CodeOf(d) == IF d = "00000001" THEN "101" ELSE "102"

DrugCodes == {CodeOf(d) : d \in DINS}

PageFull ==
    << [kind |-> "a", href |-> <<CanonHost, "/dpd_pm/", "eng", ".pdf">>, lab |-> "", text |-> <<>>],
       [kind |-> "label", href |-> <<>>, lab |-> "Revision Date",
        text |-> <<"2", "0", "2", "3", "-", "0", "5", "-", "1", "4">>] >>

PageDateOnly ==
    << [kind |-> "label", href |-> <<>>, lab |-> "Last updated",
        text |-> <<"i", "n", " ", "2", "0", "2", "1">>] >>

\* What client.get does: raises (timeout, connection error: subclasses of
\* Exception), or returns a status and a body.
Responses ==
    { [exc |-> "Exception", status |-> 0, html |-> <<>>],
      [exc |-> "none", status |-> 404, html |-> <<>>],
      [exc |-> "none", status |-> 200, html |-> PageFull],
      [exc |-> "none", status |-> 200, html |-> PageDateOnly] }

Idle == [exc |-> "none", status |-> 404, html |-> <<>>]

Tasks == 1..Len(dins)

\* A pool that hands out slots it does not have.
CanAcquireUncapped(s) == TRUE

\* asyncio.Semaphore: acquire goes through while the value is positive.
CanAcquire(s) == s > 0

SemAcquire(s) == s - 1

\* A slot that is never given back.
SemReleaseLeak(s) == s

SemRelease(s) == s + 1

\* `except Exception:` of one().
Handles(exc) == exc = "Exception"

\* A lookup that goes to the site for every identifier.
NeedsFetchAlways(d, mapping) == TRUE

\* `if not drug_code: return None, None` comes before the client is opened:
\* only a mapped identifier gets a GET.
NeedsFetch(d, mapping) == mapping[d] # None

\* discover_monograph_for_din, given the pair fetch_pm_for_drug_code returns.
discover_monograph_for_din(d, mapping, pair) ==
    IF mapping[d] = None THEN Empty ELSE pair

\* A worker whose result depends on the slots left when it finishes.
OneResultBySlots(d, mapping, resp, pair) ==
    IF sem = 0 \/ (mapping[d] # None /\ resp.exc # "none") THEN Empty
    ELSE IF mapping[d] = None THEN Empty ELSE pair

\* What one(d) stores in results[d], given what the GET does.
OneResult(d, mapping, resp, pair) ==
    IF mapping[d] # None /\ resp.exc # "none" THEN Empty
    ELSE discover_monograph_for_din(d, mapping, pair)

RespOf(i) == IF din_to_drugcode[dins[i]] = None THEN Idle ELSE remote[din_to_drugcode[dins[i]]]

PairOf(i) == IF din_to_drugcode[dins[i]] = None THEN Empty ELSE fetched[din_to_drugcode[dins[i]]]

InFlight == {i \in Tasks : tpc[i] = "fetching"}

\* one(d) up to its first suspension: it takes a slot and, unmapped, stores
\* the empty result and gives the slot back at once; mapped, it issues the GET.
TaskStart(i) ==
    /\ bpc = "gather"
    /\ tpc[i] = "pending"
    /\ CanAcquire(sem)
    /\ IF ~NeedsFetch(dins[i], din_to_drugcode)
       THEN /\ results' = (dins[i] :> OneResult(dins[i], din_to_drugcode, Idle, Empty)) @@ results
            /\ sem' = SemRelease(SemAcquire(sem))
            /\ tpc' = [tpc EXCEPT ![i] = "done"]
       ELSE /\ sem' = SemAcquire(sem)
            /\ tpc' = [tpc EXCEPT ![i] = "fetching"]
            /\ UNCHANGED results
    /\ UNCHANGED <<dins, din_to_drugcode, concurrency, remote, fetched, bpc>>
    /\ UNCHANGED otherThanBatch

\* The GET of task i finishes: one(d) stores the result, or the empty result
\* when the exception is one it handles, and leaves the `async with sem`.  An
\* exception it does not handle ends the task and gather() re-raises it.
TaskFinish(i) ==
    /\ tpc[i] = "fetching"
    /\ sem' = SemRelease(sem)
    /\ IF RespOf(i).exc = "none" \/ Handles(RespOf(i).exc)
       THEN /\ results' = (dins[i] :> OneResult(dins[i], din_to_drugcode, RespOf(i), PairOf(i))) @@ results
            /\ tpc' = [tpc EXCEPT ![i] = "done"]
            /\ UNCHANGED bpc
       ELSE /\ tpc' = [tpc EXCEPT ![i] = "failed"]
            /\ bpc' = IF bpc = "gather" THEN "raised" ELSE bpc
            /\ UNCHANGED results
    /\ UNCHANGED <<dins, din_to_drugcode, concurrency, remote, fetched>>
    /\ UNCHANGED otherThanBatch

\* Tasks started and not awaited.
GatherNotAwaited == TRUE

\* await asyncio.gather(*tasks) is over when every task is.
GatherDone == \A i \in Tasks : tpc[i] = "done"

BatchReturn ==
    /\ bpc = "gather"
    /\ GatherDone
    /\ bpc' = "returned"
    /\ UNCHANGED <<dins, din_to_drugcode, concurrency, remote, fetched, sem, tpc, results>>
    /\ UNCHANGED otherThanBatch

NoResults == [d \in {} |-> Empty]

BatchInit ==
    /\ dins \in SeqsUpTo(DINS, MaxBatch)
    /\ din_to_drugcode \in [DINS -> {None} \cup DrugCodes]
    /\ \A d \in DINS : din_to_drugcode[d] \in {None, CodeOf(d)}
    /\ concurrency \in 0..MaxConc
    /\ remote \in [DrugCodes -> Responses]
    /\ \A c \in DrugCodes :
          (\A d \in DINS : din_to_drugcode[d] # c) => remote[c] = Idle
    /\ fetched = [c \in DrugCodes |-> fetch_pm_for_drug_code(remote[c].status, remote[c].html)]
    /\ sem = concurrency
    /\ tpc = [i \in 1..Len(dins) |-> "pending"]
    /\ results = NoResults
    /\ bpc = "gather"

BatchNext ==
    \/ \E i \in Tasks : TaskStart(i)
    \/ \E i \in Tasks : TaskFinish(i)
    \/ BatchReturn

(***************************************************************************)
(* head_conditional                                                        *)
(***************************************************************************)
\* httpx.Headers keeps header names case-insensitively and hands them out in
\* lower case: dict(r.headers) is keyed by the lower-cased names.
LowerName(n) ==
    CASE n = "ETag" -> "etag" [] n = "Last-Modified" -> "last-modified" [] OTHER -> n

\* dict.get(key): the value, None for a key the dict does not hold.
DictGet(h, key) == IF key \in DOMAIN h THEN h[key] ELSE None

\* dict(r.headers), for the header lines of the response as sent.
HeadersDict(wire) ==
    [low \in {LowerName(n) : n \in DOMAIN wire} |->
        wire[CHOOSE n \in DOMAIN wire : LowerName(n) = low]]

\* `if etag:` / `if not url:` on a string or None.
Truthy(v) == v # None /\ v # ""

\* The same test on a link target (the empty string is the empty sequence).
TruthyUrl(u) == u # NoUrl /\ u # <<>>

NoHeaders == [n \in {} |-> ""]

\* A request that is conditional only when both validators are stored.
RequestHeadersCoupled(etag, last_modified) ==
    IF Truthy(etag) /\ Truthy(last_modified)
    THEN ("If-None-Match" :> etag) @@ ("If-Modified-Since" :> last_modified)
    ELSE NoHeaders

\* The request headers head_conditional builds (User-Agent left out).
RequestHeaders(etag, last_modified) ==
    (IF Truthy(etag) THEN ("If-None-Match" :> etag) ELSE NoHeaders)
    @@ (IF Truthy(last_modified) THEN ("If-Modified-Since" :> last_modified) ELSE NoHeaders)

\* What s.head does: raises, or answers with a status and header lines.
WireHeaders ==
    { NoHeaders,
      ("ETag" :> "abc"),
      ("Last-Modified" :> "lm2"),
      ("ETag" :> "abc") @@ ("Last-Modified" :> "lm2"),
      ("etag" :> "abc") @@ ("last-modified" :> "lm2") }

HeadResponses ==
    { [exc |-> "Exception", status |-> 0, wire |-> NoHeaders] }
    \cup { [exc |-> "none", status |-> 200, wire |-> w] : w \in WireHeaders }
    \cup { [exc |-> "none", status |-> st, wire |-> ("ETag" :> "abc")] : st \in {304, 500} }

\* head_conditional's return value: (status, dict(r.headers)).
head_conditional(resp) == <<resp.status, HeadersDict(resp.wire)>>

(***************************************************************************)
(* run_pipeline.main, steps 7 to 9: `existing` is the stored table as read *)
(* at the start of the run, `catalog` the identifiers of the rows built    *)
(* from the extract, `out` the frame of those rows.                        *)
(***************************************************************************)

\* A URL found by an earlier run, and the stored validators.
StoredUrl == <<OtherHost, "/dpd_pm/", ".PDF", "?v=2">>

AbsentRow ==
    [present |-> FALSE, monograph_url |-> NoUrl, pm_etag |-> None,
     pm_last_modified |-> None, pm_last_checked_at |-> None]

\* The rows the table may hold.  Validators are stored only with the URL they
\* describe (every row main upserts is such a row); an absent value is NULL
\* or, as main writes it, the empty string.
StoredRows ==
    { [present |-> TRUE, monograph_url |-> u, pm_etag |-> e,
       pm_last_modified |-> l, pm_last_checked_at |-> "t0"] :
         u \in {NoUrl, <<>>}, e \in {None, ""}, l \in {None, ""} }
    \cup
    { [present |-> TRUE, monograph_url |-> StoredUrl, pm_etag |-> e,
       pm_last_modified |-> l, pm_last_checked_at |-> "t0"] :
         e \in {None, "", "e1"}, l \in {None, "lm1"} }

\* now_utc()
Now == "t1"

\* out as step 6 leaves it: the monograph columns hold no value.
FreshRow ==
    [monograph_url |-> NoUrl, monograph_revision_date |-> NoDate,
     pm_etag |-> None, pm_last_modified |-> None, pm_last_checked_at |-> None]

\* _build_din_to_drugcode: every identifier of the extract has its drug code.
din_to_dc == [d \in DINS |-> CodeOf(d)]

\* The identifiers in the order of the frame's rows.
RECURSIVE InOrder(_)
InOrder(S) ==
    IF S = {} THEN <<>>
    ELSE LET d == IF "00000001" \in S THEN "00000001" ELSE CHOOSE x \in S : TRUE
         IN  <<d>> \o InOrder(S \ {d})

\* out["monograph_url"].isna() | (out["monograph_url"] == "")
to_discover(o) == {d \in DOMAIN o : ~TruthyUrl(o[d].monograph_url)}

\* The body of the loop over discovered.items().
WriteBack(row, res) ==
    [row EXCEPT
        !.monograph_url = IF TruthyUrl(res[1]) THEN res[1] ELSE @,
        !.monograph_revision_date = IF res[2] # NoDate THEN res[2] ELSE @,
        !.pm_etag = None,
        !.pm_last_modified = None,
        !.pm_last_checked_at = Now]

\* Step 7.  batch_discover(to_discover, din_to_dc, concurrency=10) returns,
\* for each identifier, what one() stores for the answer of the remote site.
Discover ==
    /\ mpc = "discover"
    /\ \E rem \in [DrugCodes -> Responses] :
          LET todo == to_discover(out)
              got == [d \in todo |->
                         OneResult(d, din_to_dc, rem[din_to_dc[d]],
                                   fetch_pm_for_drug_code(rem[din_to_dc[d]].status,
                                                          rem[din_to_dc[d]].html))]
          IN  /\ discovered' = got
              /\ out' = [d \in catalog |->
                            IF d \in todo THEN WriteBack(out[d], got[d]) ELSE out[d]]
    /\ mpc' = "merge"
    /\ UNCHANGED <<existing, catalog, subset, cursor, changed, heads, upserted>>
    /\ UNCHANGED otherThanMain

existing_rows == Cardinality({d \in DINS : existing[d].present})

\* A merge that keeps the URL discovered in this run.
UpdateRowKeepsDiscovered(row, stored) ==
    IF ~stored.present THEN row
    ELSE [row EXCEPT
            !.monograph_url =
                IF stored.monograph_url # NoUrl /\ ~TruthyUrl(@) THEN stored.monograph_url ELSE @,
            !.pm_etag = IF stored.pm_etag # None THEN stored.pm_etag ELSE @,
            !.pm_last_modified =
                IF stored.pm_last_modified # None THEN stored.pm_last_modified ELSE @,
            !.pm_last_checked_at =
                IF stored.pm_last_checked_at # None THEN stored.pm_last_checked_at ELSE @]

\* A merge that takes a stored empty string for no value.
UpdateRowSkipsEmpty(row, stored) ==
    IF ~stored.present THEN row
    ELSE [row EXCEPT
            !.monograph_url =
                IF TruthyUrl(stored.monograph_url) THEN stored.monograph_url ELSE @,
            !.pm_etag = IF Truthy(stored.pm_etag) THEN stored.pm_etag ELSE @,
            !.pm_last_modified =
                IF Truthy(stored.pm_last_modified) THEN stored.pm_last_modified ELSE @,
            !.pm_last_checked_at =
                IF Truthy(stored.pm_last_checked_at) THEN stored.pm_last_checked_at ELSE @]

\* DataFrame.update: a stored value that is not NA overwrites the frame's.
UpdateRow(row, stored) ==
    IF ~stored.present THEN row
    ELSE [row EXCEPT
            !.monograph_url = IF stored.monograph_url # NoUrl THEN stored.monograph_url ELSE @,
            !.pm_etag = IF stored.pm_etag # None THEN stored.pm_etag ELSE @,
            !.pm_last_modified =
                IF stored.pm_last_modified # None THEN stored.pm_last_modified ELSE @,
            !.pm_last_checked_at =
                IF stored.pm_last_checked_at # None THEN stored.pm_last_checked_at ELSE @]

\* has_url and the records of subset, in row order.
HasUrl(row) == row.monograph_url # NoUrl /\ row.monograph_url # <<>>

RECURSIVE SubsetOf(_, _)
SubsetOf(o, order) ==
    IF order = <<>> THEN <<>>
    ELSE (IF HasUrl(o[Head(order)])
          THEN << [din |-> Head(order), monograph_url |-> o[Head(order)].monograph_url,
                   pm_etag |-> o[Head(order)].pm_etag,
                   pm_last_modified |-> o[Head(order)].pm_last_modified] >>
          ELSE <<>>) \o SubsetOf(o, Tail(order))

\* Step 8, up to the loop: skipped when the table was empty.
Merge ==
    /\ mpc = "merge"
    /\ IF existing_rows > 0
       THEN LET merged == [d \in catalog |-> UpdateRow(out[d], existing[d])]
            IN  /\ out' = merged
                /\ subset' = SubsetOf(merged, InOrder(catalog))
                /\ mpc' = "head"
       ELSE /\ mpc' = "upsert"
            /\ UNCHANGED <<out, subset>>
    /\ UNCHANGED <<existing, catalog, discovered, cursor, changed, heads, upserted>>
    /\ UNCHANGED otherThanMain

\* A loop without `if sc == 304: continue`.
AfterHeadNo304(row, sc, hdrs) ==
    IF sc \in {200, 304}
    THEN [row EXCEPT !.pm_last_checked_at = Now,
                     !.pm_etag = DictGet(hdrs, "ETag"),
                     !.pm_last_modified = DictGet(hdrs, "Last-Modified")]
    ELSE [row EXCEPT !.pm_last_checked_at = Now]

\* A loop that takes every answer but 304 for a changed document.
AfterHeadAnyStatus(row, sc, hdrs) ==
    IF sc = 304 THEN [row EXCEPT !.pm_last_checked_at = Now]
    ELSE [row EXCEPT !.pm_last_checked_at = Now,
                     !.pm_etag = DictGet(hdrs, "ETag"),
                     !.pm_last_modified = DictGet(hdrs, "Last-Modified")]

\* What one round of the loop does to the row, given head_conditional's return.
AfterHead(row, sc, hdrs) ==
    IF sc = 304 THEN [row EXCEPT !.pm_last_checked_at = Now]
    ELSE IF sc = 200
    THEN [row EXCEPT !.pm_last_checked_at = Now,
                     !.pm_etag = DictGet(hdrs, "ETag"),
                     !.pm_last_modified = DictGet(hdrs, "Last-Modified")]
    ELSE [row EXCEPT !.pm_last_checked_at = Now]

\* An exception of head_conditional leaves the loop and main: nothing in
\* either catches it.
HeadRaises(resp) == resp.exc # "none"

\* One round of `for r in subset`.
HeadCheck ==
    /\ mpc = "head"
    /\ cursor <= Len(subset)
    /\ LET r == subset[cursor] IN
       IF ~TruthyUrl(r.monograph_url)
       THEN /\ cursor' = cursor + 1
            /\ UNCHANGED <<out, changed, heads, mpc>>
       ELSE \E resp \in HeadResponses :
              LET ret == head_conditional(resp)
                  call == [din |-> r.din, url |-> r.monograph_url,
                           request |-> RequestHeaders(r.pm_etag, r.pm_last_modified),
                           response |-> resp]
              IN  /\ heads' = Append(heads, call)
                  /\ IF HeadRaises(resp)
                     THEN /\ mpc' = "crashed"
                          /\ UNCHANGED <<out, changed, cursor>>
                     ELSE /\ out' = [out EXCEPT ![r.din] = AfterHead(@, ret[1], ret[2])]
                          /\ changed' = IF ret[1] = 200 THEN changed + 1 ELSE changed
                          /\ cursor' = cursor + 1
                          /\ UNCHANGED mpc
    /\ UNCHANGED <<existing, catalog, discovered, subset, upserted>>
    /\ UNCHANGED otherThanMain

HeadLoopEnd ==
    /\ mpc = "head"
    /\ cursor > Len(subset)
    /\ mpc' = "upsert"
    /\ UNCHANGED <<existing, catalog, out, discovered, subset, cursor, changed, heads, upserted>>
    /\ UNCHANGED otherThanMain

\* out[out_cols].fillna("")
FillNa(row) ==
    [monograph_url |-> IF row.monograph_url = NoUrl THEN <<>> ELSE row.monograph_url,
     monograph_revision_date |-> row.monograph_revision_date,
     pm_etag |-> IF row.pm_etag = None THEN "" ELSE row.pm_etag,
     pm_last_modified |-> IF row.pm_last_modified = None THEN "" ELSE row.pm_last_modified,
     pm_last_checked_at |-> IF row.pm_last_checked_at = None THEN "" ELSE row.pm_last_checked_at]

\* Step 9.
Upsert ==
    /\ mpc = "upsert"
    /\ upserted' = [d \in catalog |-> FillNa(out[d])]
    /\ mpc' = "done"
    /\ UNCHANGED <<existing, catalog, out, discovered, subset, cursor, changed, heads>>
    /\ UNCHANGED otherThanMain

NoRows == [d \in {} |-> FreshRow]

MainInit ==
    /\ existing \in [DINS -> StoredRows \cup {AbsentRow}]
    /\ catalog \in SUBSET DINS
    /\ catalog # {}
    /\ out = [d \in catalog |-> FreshRow]
    /\ discovered = NoResults
    /\ subset = <<>>
    /\ cursor = 1
    /\ changed = 0
    /\ heads = <<>>
    /\ upserted = NoRows
    /\ mpc = "discover"

MainNext ==
    \/ Discover
    \/ Merge
    \/ HeadCheck
    \/ HeadLoopEnd
    \/ Upsert

(***************************************************************************)
(* The fetch-and-extract step on its own: a response, and what             *)
(* fetch_pm_for_drug_code returns for it.                                  *)
(***************************************************************************)

ExtractInit ==
    /\ status \in {200, 404}
    /\ html \in Htmls
    /\ extracted = Empty
    /\ epc = "got"

FetchPm ==
    /\ epc = "got"
    /\ extracted' = fetch_pm_for_drug_code(status, html)
    /\ epc' = "returned"
    /\ UNCHANGED <<status, html>>
    /\ UNCHANGED otherThanExtract

(***************************************************************************)
(* The specifications: each runs one part, the other parts at rest.        *)
(***************************************************************************)
BatchRest ==
    /\ dins = <<>>
    /\ din_to_drugcode = [d \in DINS |-> None]
    /\ concurrency = 0
    /\ remote = [c \in DrugCodes |-> Idle]
    /\ fetched = [c \in DrugCodes |-> Empty]
    /\ sem = 0
    /\ tpc = <<>>
    /\ results = NoResults
    /\ bpc = "returned"

MainRest ==
    /\ existing = [d \in DINS |-> AbsentRow]
    /\ catalog = {}
    /\ out = NoRows
    /\ discovered = NoResults
    /\ subset = <<>>
    /\ cursor = 1
    /\ changed = 0
    /\ heads = <<>>
    /\ upserted = NoRows
    /\ mpc = "done"

ExtractRest ==
    /\ status = 404
    /\ html = <<>>
    /\ extracted = Empty
    /\ epc = "returned"

InitBatch == BatchInit /\ MainRest /\ ExtractRest

InitMain == MainInit /\ BatchRest /\ ExtractRest

InitExtract == ExtractInit /\ BatchRest /\ MainRest

ExtractNext == FetchPm

\* One call of batch_discover.
SpecBatch == InitBatch /\ [][BatchNext]_vars

\* The same under asyncio's scheduling: a task that can run does run, and
\* a GET ends (it answers, fails or times out after 20 s).
FairSpecBatch == SpecBatch /\ WF_vars(BatchNext)

\* One run of main from step 7 on.
SpecMain == InitMain /\ [][MainNext]_vars

\* One fetch-and-extract.
SpecExtract == InitExtract /\ [][ExtractNext]_vars

(***************************************************************************)
(* Claims about batch_discover (SpecBatch, FairSpecBatch)                  *)
(***************************************************************************)
DinsOf == {dins[i] : i \in Tasks}

Mapped(i) == din_to_drugcode[dins[i]] # None

\* C1: in every reachable state of a call of batch_discover the number of
\* identifiers whose page fetch is in flight is at most `concurrency`.
C1_ConcurrencyCap == Cardinality(InFlight) <= concurrency

\* The cap binds: every slot is taken by a fetch and another mapped
\* identifier waits for one.
C1_Witness ==
    /\ concurrency >= 1
    /\ Cardinality(InFlight) = concurrency
    /\ \E i \in Tasks : tpc[i] = "pending" /\ Mapped(i)

\* C2: batch_discover has not returned while a pipeline is pending or in
\* flight, and when it returns the results hold an entry for every identifier
\* of the input.
C2_JoinPoint ==
    bpc = "returned" =>
        /\ \A i \in Tasks : tpc[i] \notin {"pending", "fetching"}
        /\ \A i \in Tasks : dins[i] \in DOMAIN results

\* A call over two identifiers returns, one discovered and one empty.
C2_Witness ==
    /\ bpc = "returned"
    /\ Cardinality(DinsOf) = 2
    /\ \E d \in DinsOf : results[d] = Empty
    /\ \E d \in DinsOf : results[d][1] # NoUrl

\* The pipeline of task i fails: the GET raises, answers another status than
\* 200, or answers markup with no candidate link.
PipelineFails(i) ==
    /\ Mapped(i)
    /\ \/ RespOf(i).exc # "none"
       \/ RespOf(i).status # 200
       \/ FindPdfs(RespOf(i).html) = <<>>

\* C3: a failing pipeline records (None, None) for its identifier only: the
\* batch is not aborted, and every identifier whose pipeline does not fail has
\* the result extracted from its own page.
C3_FailureIsolated ==
    /\ bpc # "raised"
    /\ bpc = "returned" =>
          \A i \in Tasks :
             /\ PipelineFails(i) => results[dins[i]] = Empty
             /\ (Mapped(i) /\ ~PipelineFails(i)) =>
                   results[dins[i]] = << _best_pdf_from_html(RespOf(i).html),
                                         _find_revision_date(RespOf(i).html) >>

\* C4 as stated: with every GET ending and the tasks scheduled fairly,
\* batch_discover returns whatever the concurrency limit (0 included) and the
\* batch: until it has returned, some task or the gather can take a step.
C4_AlwaysReturns == bpc = "returned" \/ ENABLED BatchNext

\* C4 as it holds: with a limit of at least 1, or an empty batch, the call
\* returns with every identifier's task over and its result recorded.
C4_ReturnsWithSlots ==
    (concurrency >= 1 \/ dins = <<>>) =>
        <>(/\ bpc = "returned"
           /\ \A i \in Tasks : tpc[i] = "done" /\ dins[i] \in DOMAIN results)

\* A call with one slot and more mapped identifiers than slots has returned.
C4_Witness ==
    /\ bpc = "returned"
    /\ concurrency = 1
    /\ Cardinality({i \in Tasks : Mapped(i)}) >= 2

(***************************************************************************)
(* Claims about the run of main (SpecMain)                                 *)
(***************************************************************************)
\* The HEAD of identifier d was answered with status st.
Answered(d, st) ==
    \E j \in 1..Len(heads) :
        /\ heads[j].din = d
        /\ heads[j].response.exc = "none"
        /\ heads[j].response.status = st

\* No value: NULL, or the empty string main writes for it.
Absent(v) == v \in {None, ""}

\* The value v is the stored one (an absent value staying absent).
SameStored(v, stored) == v = stored \/ (Absent(v) /\ Absent(stored))

ValidatorsKept(row, stored) ==
    /\ SameStored(row.pm_etag, stored.pm_etag)
    /\ SameStored(row.pm_last_modified, stored.pm_last_modified)

\* C5: a transport failure of one record's HEAD does not abort the run.
C5_RunSurvivesHeadFailure ==
    (\E j \in 1..Len(heads) : heads[j].response.exc # "none") => mpc # "crashed"

Carried(wire, low) ==
    IF \E n \in DOMAIN wire : LowerName(n) = low
    THEN wire[CHOOSE n \in DOMAIN wire : LowerName(n) = low] ELSE None

\* C7: for a record whose HEAD is answered 200, etag and lastModified become
\* the ETag and Last-Modified the response carries, and a field is cleared
\* only when the response does not carry its header.
C7_OkTakesResponseValidators ==
    \A j \in 1..Len(heads) :
        (heads[j].response.exc = "none" /\ heads[j].response.status = 200) =>
            /\ out[heads[j].din].pm_etag = Carried(heads[j].response.wire, "etag")
            /\ out[heads[j].din].pm_last_modified
                   = Carried(heads[j].response.wire, "last-modified")

NewlyDiscovered(row, stored) ==
    /\ TruthyUrl(row.monograph_url)
    /\ row.monograph_url # stored.monograph_url

\* v is no value, or a value a response for the row's URL carried in this run.
FromResponseFor(d, url, v) ==
    \/ Absent(v)
    \/ \E j \in 1..Len(heads) :
          /\ heads[j].din = d
          /\ heads[j].url = url
          /\ \E n \in DOMAIN heads[j].response.wire : heads[j].response.wire[n] = v

FreshValidators(d, row) ==
    NewlyDiscovered(row, existing[d]) =>
        /\ FromResponseFor(d, row.monograph_url, row.pm_etag)
        /\ FromResponseFor(d, row.monograph_url, row.pm_last_modified)

C10_DateOnlyWithUrl ==
    epc = "returned" => (extracted[2] # NoDate => extracted[1] # NoUrl)

\* The candidates of the page in hand, in markup order.
Candidates == FindPdfs(html)

\* C11: for every page with at least one candidate link, the URL returned is
\* a candidate whose score is the maximum over the candidates, and the first
\* in the markup among those of maximum score.
C11_BestFirstSeen ==
    (epc = "returned" /\ status = 200 /\ Candidates # <<>>) =>
        /\ extracted[1] # NoUrl
        /\ \E i \in 1..Len(Candidates) :
              /\ extracted[1] = Candidates[i]
              /\ \A j \in 1..Len(Candidates) : Score(Candidates[j]) <= Score(Candidates[i])
              /\ \A j \in 1..(i - 1) : Score(Candidates[j]) < Score(Candidates[i])

\* Two different candidates tie for the maximum and the first one is returned.
C11_Witness ==
    /\ epc = "returned"
    /\ status = 200
    /\ Len(Candidates) = 2
    /\ Candidates[1] # Candidates[2]
    /\ Score(Candidates[1]) = Score(Candidates[2])
    /\ extracted[1] = Candidates[1]

(***************************************************************************)
(* Further claims about the run of main (SpecMain)                         *)
(***************************************************************************)
\* C12: an identifier whose stored row carries a reference URL is never sent
\* to batch_discover: discovery is applied only to identifiers without one.
C12_DiscoveryOnlyWithoutUrl ==
    \A d \in DOMAIN discovered :
        ~(existing[d].present /\ TruthyUrl(existing[d].monograph_url))

(***************************************************************************)
(* Further claims about batch_discover (SpecBatch)                         *)
(***************************************************************************)
\* What the inputs alone give identifier d: the empty result when it has no
\* drug code or its GET raises, else what the page of its drug code yields.
Determined(d) ==
    IF din_to_drugcode[d] = None THEN Empty
    ELSE IF remote[din_to_drugcode[d]].exc # "none" THEN Empty
    ELSE fetch_pm_for_drug_code(remote[din_to_drugcode[d]].status,
                                remote[din_to_drugcode[d]].html)

\* C13: the mapping batch_discover returns is a function of the identifier
\* list, the mapping and the pages: whatever the interleaving of the tasks,
\* it holds exactly the input's identifiers, each with the result its own
\* page determines.
C13_Deterministic ==
    bpc = "returned" =>
        /\ DOMAIN results = DinsOf
        /\ \A d \in DinsOf : results[d] = Determined(d)

\* A call over two identifiers with two slots has returned two different
\* results.
C13_Witness ==
    /\ bpc = "returned"
    /\ concurrency = 2
    /\ Cardinality(DinsOf) = 2
    /\ \E d, e \in DinsOf : results[d] # results[e]

\* The tasks of identifier d that have issued its page fetch.
FetchesOf(d) == {i \in Tasks : dins[i] = d /\ Mapped(i) /\ tpc[i] \in {"fetching", "done"}}

\* The tasks of identifier d that have written results[d].
WritesOf(d) == {i \in Tasks : dins[i] = d /\ tpc[i] = "done"}

\* C14: within one call each identifier is fetched at most once and its entry
\* of results is written once, by one task, also when the identifier occurs
\* more than once in the list.
C14_OncePerIdentifier ==
    \A d \in DINS :
        /\ Cardinality(FetchesOf(d)) <= 1
        /\ Cardinality(WritesOf(d)) <= 1
        /\ (bpc = "returned" /\ d \in DinsOf) => Cardinality(WritesOf(d)) = 1

(***************************************************************************)
(* Claims about the HEAD request (SpecMain)                                *)
(***************************************************************************)
\* The request of a HEAD call carries header `name` exactly when the stored
\* value is present, and then with the stored value.
SentIffStored(request, name, stored) ==
    /\ name \in DOMAIN request <=> ~Absent(stored)
    /\ name \in DOMAIN request => request[name] = stored

\* C15: every HEAD request carries If-None-Match exactly when the record's
\* stored etag is present, with that etag, and If-Modified-Since exactly when
\* its stored lastModified is present, with that value, each independently
\* of the other.
C15_ConditionalHeaders ==
    \A j \in 1..Len(heads) :
        /\ SentIffStored(heads[j].request, "If-None-Match",
                         existing[heads[j].din].pm_etag)
        /\ SentIffStored(heads[j].request, "If-Modified-Since",
                         existing[heads[j].din].pm_last_modified)

\* A HEAD was sent for a record stored with an etag and no lastModified, and
\* one for a record stored with a lastModified and no etag.
C15_Witness ==
    /\ \E j \in 1..Len(heads) :
          /\ existing[heads[j].din].pm_etag = "e1"
          /\ existing[heads[j].din].pm_last_modified = None
          /\ DOMAIN heads[j].request = {"If-None-Match"}
    /\ \E j \in 1..Len(heads) :
          /\ existing[heads[j].din].pm_etag = ""
          /\ existing[heads[j].din].pm_last_modified = "lm1"
          /\ DOMAIN heads[j].request = {"If-Modified-Since"}

(***************************************************************************)
(* Claims about unmapped identifiers (SpecBatch)                           *)
(***************************************************************************)
\* C16: an identifier with no drug code in the mapping gets the empty result
\* without any page fetch being issued for it, and the batch does not fail
\* over it.
C16_UnmappedIsEmpty ==
    /\ \A i \in Tasks :
          ~Mapped(i) =>
             /\ tpc[i] \in {"pending", "done"}
             /\ tpc[i] = "done" => results[dins[i]] = Empty
    /\ (\E i \in Tasks : ~Mapped(i)) => bpc # "raised"

\* A call with an unmapped and a mapped identifier has returned, the
\* unmapped one with the empty result and the mapped one with a URL.
C16_Witness ==
    /\ bpc = "returned"
    /\ \E i \in Tasks : ~Mapped(i) /\ results[dins[i]] = Empty
    /\ \E i \in Tasks : Mapped(i) /\ results[dins[i]][1] # NoUrl

(***************************************************************************)
(* Claims about date parsing (SpecExtract)                                 *)
(***************************************************************************)
\* The page in hand is one labelled value long enough to be captured.
OneLabel == Len(html) = 1 /\ html[1].kind = "label" /\ Len(html[1].text) >= 6

\* The captured text, as _parse_date sees it after strip().
Captured == Strip(html[1].text)

\* The years 1900..2099 that stand in s as a number of their own: four
\* digits with no digit before or after them.
StandaloneYears(s) ==
    { NumVal(SubSeq(s, i, i + 3)) :
        i \in { k \in 1..Len(s) :
                  /\ YearAt(s, k)
                  /\ (k = 1 \/ s[k - 1] \notin Digits)
                  /\ (k + 4 > Len(s) \/ s[k + 4] \notin Digits) } }

\* C17: for a captured text none of the five formats parses, the date is
\* YYYY-01-01 for a standalone year token YYYY of the text when it has one,
\* and absent when it has none.
C17_YearTokenFallback ==
    (/\ epc = "returned"
     /\ status = 200
     /\ OneLabel
     /\ \A f \in 1..5 : Strptime(Captured, f) = NoDate) =>
        IF StandaloneYears(Captured) = {}
        THEN extracted[2] = NoDate
        ELSE extracted[2] \in {[y |-> yr, m |-> 1, d |-> 1] : yr \in StandaloneYears(Captured)}

(***************************************************************************)
(* Claims about the stored URL (SpecMain)                                  *)
(***************************************************************************)
\* The stored row of d holds a monograph_url that is not NULL.
StoredUrlNotNull(d) == existing[d].present /\ existing[d].monograph_url # NoUrl

\* C18: at the end of a run over a table with rows, the record upserted for
\* an identifier stored with a non-null monograph_url (the empty string
\* included) carries the stored monograph_url, whatever discovery returned.
C18_StoredUrlWins ==
    mpc = "done" =>
        \A d \in catalog :
            StoredUrlNotNull(d) => upserted[d].monograph_url = existing[d].monograph_url

\* Discovery found a URL for an identifier stored with the empty string, and
\* one for an identifier stored with another URL; both keep the stored value.
C18_Witness ==
    /\ mpc = "done"
    /\ \E d \in catalog :
          /\ existing[d].present
          /\ existing[d].monograph_url = <<>>
          /\ TruthyUrl(discovered[d][1])
          /\ upserted[d].monograph_url = <<>>
    /\ \E d \in catalog :
          /\ existing[d].monograph_url = StoredUrl
          /\ TruthyUrl(discovered[d][1])
          /\ discovered[d][1] # StoredUrl
          /\ upserted[d].monograph_url = StoredUrl

====
